---- MODULE Spec2Model ----
(***************************************************************************)
(* Task-dispatch coordinator (src/api/main.py): the in-memory worker       *)
(* registry, the allocation planner and the fan-out/join dispatch.         *)
(*                                                                         *)
(* Text (urls, labels, ids) is a sequence of one-character strings, so     *)
(* that strip(), the trailing-slash loop and startswith() are computed.    *)
(* Time is the wall clock in integer milliseconds.                         *)
(***************************************************************************)
EXTENDS Integers, Sequences, FiniteSets, TLC

VARIABLES
    workers,     \* the registry dict, as its values in key-insertion order
    task_seq,    \* the process-wide task counter
    clock,       \* what _now() returns
    inflight,    \* the api_create_task requests suspended at asyncio.gather
    resp,        \* the latest HTTP response the API produced
    dist_total,  \* planner harness: the total handed to _distribute_evenly
    dist_ws,     \* planner harness: the worker list handed to it
    dist_out,    \* planner harness: what it returned
    threads      \* the handlers stopped between a read and a write of the registry

vars == <<workers, task_seq, clock, inflight, resp, dist_total, dist_ws, dist_out, threads>>

\* ---------------------------------------------------------------- bounds
MaxClock == 2      \* the clock stops advancing here
MaxTaskSeq == 1    \* no further task is accepted once task_seq reaches this
MaxCount == 3      \* the largest count a task request carries
MaxTotal == 10     \* planner harness: the largest total
MaxWorkers == 2    \* registrations of new ids are not issued beyond this many workers
MaxTasks == 2      \* overlapping tasks: no further task is accepted once task_seq reaches this
MaxThreads == 2    \* interleaved writes: the registrations under way at once
MaxTaskCount == 2  \* overlapping tasks: the largest count a task request carries

\* ------------------------------------------------------------------ text
Str_http == <<"h", "t", "t", "p", ":", "/", "/">>
Str_https == <<"h", "t", "t", "p", "s", ":", "/", "/">>
Str_ftp == <<"f", "t", "p", ":", "/", "/">>
Str_worker == <<"w", "o", "r", "k", "e", "r">>
Str_reg == <<"r", "e", "g", "-">>
Str_env == <<"e", "n", "v", "-">>
Str_task == <<"t", "a", "s", "k", "-">>
Str_HTTP == <<"H", "T", "T", "P", " ">>
Str_register == "register"
Str_envsrc == "env"

Whitespace == {" ", "\t", "\n"}

RECURSIVE lstrip(_)
lstrip(s) ==
    IF s # <<>> /\ Head(s) \in Whitespace THEN lstrip(Tail(s)) ELSE s

RECURSIVE rstrip(_)
rstrip(s) ==
    IF s # <<>> /\ s[Len(s)] \in Whitespace THEN rstrip(SubSeq(s, 1, Len(s) - 1)) ELSE s

\* str.strip()
strip(s) == rstrip(lstrip(s))

\* str.startswith(prefix)
startswith(s, p) == Len(s) >= Len(p) /\ SubSeq(s, 1, Len(p)) = p

\* str.endswith("/")
endswith_slash(s) == s # <<>> /\ s[Len(s)] = "/"

Digit(d) == <<"0", "1", "2", "3", "4", "5", "6", "7", "8", "9">>[d + 1]

\* str(n) for an int n >= 0, as the f-strings format it
RECURSIVE IntToStr(_)
IntToStr(n) == IF n < 10 THEN <<Digit(n)>> ELSE IntToStr(n \div 10) \o <<Digit(n % 10)>>

\* the body of the while loop of _normalize_url
RECURSIVE strip_slashes(_)
strip_slashes(u) ==
    IF endswith_slash(u) THEN strip_slashes(SubSeq(u, 1, Len(u) - 1)) ELSE u

_normalize_url(url) == strip_slashes(strip(url))

\* ------------------------------------------------------------- registry
NoStr == [some |-> FALSE, s |-> <<>>]     \* Optional[str]: None
SomeStr(s) == [some |-> TRUE, s |-> s]    \* Optional[str]: a string

\* (x or "") for an Optional[str]
OrEmpty(o) == IF o.some THEN o.s ELSE <<>>

Worker(id, label, url, registered_at, last_seen_at, source) ==
    [id |-> id, label |-> label, url |-> url, registered_at |-> registered_at,
     last_seen_at |-> last_seen_at, source |-> source]

\* wid in workers
Has(ws, wid) == \E i \in 1..Len(ws) : ws[i].id = wid

\* workers[wid] / workers.get(wid), for a key that is present
Get(ws, wid) == ws[CHOOSE i \in 1..Len(ws) : ws[i].id = wid]

\* workers[wid] = w: a present key keeps its place in the dict's order
Put(ws, wid, w) ==
    IF Has(ws, wid)
    THEN [i \in 1..Len(ws) |-> IF ws[i].id = wid THEN w ELSE ws[i]]
    ELSE Append(ws, w)

Ids(ws) == {ws[i].id : i \in 1..Len(ws)}

\* sorted(..., key=registered_at): a stable insertion sort
RECURSIVE InsertByRegisteredAt(_, _)
InsertByRegisteredAt(sortedSeq, w) ==
    IF sortedSeq = <<>> THEN <<w>>
    ELSE IF sortedSeq[Len(sortedSeq)].registered_at <= w.registered_at
         THEN Append(sortedSeq, w)
         ELSE Append(InsertByRegisteredAt(SubSeq(sortedSeq, 1, Len(sortedSeq) - 1), w),
                     sortedSeq[Len(sortedSeq)])

RECURSIVE SortedByRegisteredAt(_)
SortedByRegisteredAt(ws) ==
    IF ws = <<>> THEN <<>>
    ELSE InsertByRegisteredAt(SortedByRegisteredAt(SubSeq(ws, 1, Len(ws) - 1)), ws[Len(ws)])

\* the list sorted the other way round
_get_workers_list_Descending(ws) ==
    [i \in 1..Len(ws) |-> SortedByRegisteredAt(ws)[Len(ws) + 1 - i]]

_get_workers_list(ws) == SortedByRegisteredAt(ws)

\* ------------------------------------------------------------- planner
RECURSIVE SumCounts(_)
SumCounts(pairs) ==
    IF pairs = <<>> THEN 0 ELSE pairs[1].c + SumCounts(Tail(pairs))

\* the remainder test off by one
_distribute_evenly_RemOffByOne(total, ws) ==
    LET n == Len(ws)
        base == total \div n
        rem == total % n
    IN  [i \in 1..n |-> [w |-> ws[i], c |-> base + (IF i - 1 <= rem THEN 1 ELSE 0)]]

_distribute_evenly(total, ws) ==
    LET n == Len(ws)
        base == total \div n
        rem == total % n
    IN  [i \in 1..n |-> [w |-> ws[i], c |-> base + (IF i - 1 < rem THEN 1 ELSE 0)]]

\* -------------------------------------------------- registration inputs
Str_url_a == <<" ">> \o Str_http \o <<"a", "/", "/", " ">>
Str_url_b == Str_https \o <<"b">>
Str_id_w == <<" ", "w", " ">>
Str_label_m == <<" ", "m">>

RegisterBody(url, label, id) == [url |-> url, label |-> label, id |-> id]

\* the request bodies tried: url (required), label, id (optional)
RegisterWorkerIn ==
    { RegisterBody(<<>>, <<>>, NoStr),
      RegisterBody(Str_http \o <<"/">>, <<>>, NoStr),
      RegisterBody(Str_ftp \o <<"x">>, Str_label_m, SomeStr(Str_id_w)),
      RegisterBody(Str_url_a, <<>>, SomeStr(Str_id_w)),
      RegisterBody(Str_url_b, Str_label_m, SomeStr(Str_id_w)),
      RegisterBody(Str_url_a, Str_label_m, NoStr) }

NoWorker == Worker(<<>>, <<>>, <<>>, 0, 0, "")

NoReport ==
    [taskId |-> <<>>, totalCount |-> 0, availableServers |-> 0, perServerAssigned |-> <<>>,
     perWorker |-> <<>>, successServers |-> 0, failedServers |-> 0, createdTotal |-> 0]

\* An HTTP response: the endpoint that answered, the status, and the body
\* ("worker" of a registration, the report of a task; empty otherwise).
Response(op, status, worker, report) ==
    [op |-> op, status |-> status, worker |-> worker, report |-> report]

\* line 160: the id the registration is stored under (the handler reads
\* _now() here and again at line 162; a handler is one step, and both reads
\* return the clock of that step)
RegisterId(body, now) ==
    IF strip(OrEmpty(body.id)) # <<>> THEN strip(OrEmpty(body.id))
    ELSE Str_reg \o IntToStr(now)

\* line 161
RegisterLabel(body) ==
    LET l == IF body.label # <<>> THEN body.label ELSE Str_worker
    IN  IF strip(l) # <<>> THEN strip(l) ELSE Str_worker

\* the scheme check left out
RegisterRejects_EmptyOnly(url) == url = <<>>

\* lines 155-158: the checks that raise HTTPException(400)
RegisterRejects(url) ==
    \/ url = <<>>
    \/ ~(startswith(url, Str_http) \/ startswith(url, Str_https))

\* a registration that stamps registered_at anew
RegisterEntry_ResetsRegisteredAt(ws, wid, label, url, now) ==
    Worker(wid, label, url, now, now, Str_register)

\* lines 165-172: the entry a registration writes
RegisterEntry(ws, wid, label, url, now) ==
    Worker(wid, label, url,
           IF Has(ws, wid) THEN Get(ws, wid).registered_at ELSE now,
           now, Str_register)

api_register_worker(body) ==
    LET url == _normalize_url(body.url)
        wid == RegisterId(body, clock)
        label == RegisterLabel(body)
        entry == RegisterEntry(workers, wid, label, url, clock)
    IN  /\ IF RegisterRejects(url)
           THEN /\ resp' = Response("register", 400, NoWorker, NoReport)
                /\ workers' = workers
           ELSE /\ Has(workers, wid) \/ Len(workers) < MaxWorkers
                /\ workers' = Put(workers, wid, entry)
                /\ resp' = Response("register", 200, entry, NoReport)
        /\ UNCHANGED <<task_seq, clock, inflight, dist_total, dist_ws, dist_out, threads>>

\* --------------------------------------------------------------- clock
Tick ==
    /\ clock < MaxClock
    /\ clock' = clock + 1
    /\ UNCHANGED <<workers, task_seq, inflight, resp, dist_total, dist_ws, dist_out, threads>>

\* ------------------------------------------------- worker HTTP responses
\* A JSON value: t is its type; n the number (int), truth value (bool) or
\* size (list, dict); s the text (str).  "missing" is an absent key.
JMissing == [t |-> "missing", n |-> 0, s |-> <<>>]
JNull == [t |-> "null", n |-> 0, s |-> <<>>]
JInt(k) == [t |-> "int", n |-> k, s |-> <<>>]
JStr(x) == [t |-> "str", n |-> 0, s |-> x]

\* dict.get(key): an absent key reads as None
DictGet(v) == IF v.t = "missing" THEN JNull ELSE v

\* Python truth value of a JSON value
Truthy(v) ==
    CASE v.t \in {"missing", "null"} -> FALSE
      [] v.t \in {"int", "bool", "list", "dict"} -> v.n # 0
      [] v.t = "str" -> v.s # <<>>

Digits == {"0", "1", "2", "3", "4", "5", "6", "7", "8", "9"}

DigitValue(c) == CHOOSE d \in 0..9 : Digit(d) = c

RECURSIVE ParseDigits(_)
ParseDigits(s) ==
    IF s = <<>> THEN 0 ELSE 10 * ParseDigits(SubSeq(s, 1, Len(s) - 1)) + DigitValue(s[Len(s)])

\* int(v or 0): the value, or raised (ValueError, TypeError)
IntOrZero(v) ==
    IF ~Truthy(v) THEN [raised |-> FALSE, value |-> 0]
    ELSE CASE v.t \in {"int", "bool"} -> [raised |-> FALSE, value |-> v.n]
           [] v.t = "str" ->
                IF strip(v.s) # <<>> /\ \A i \in 1..Len(strip(v.s)) : strip(v.s)[i] \in Digits
                THEN [raised |-> FALSE, value |-> ParseDigits(strip(v.s))]
                ELSE [raised |-> TRUE, value |-> 0]
           [] OTHER -> [raised |-> TRUE, value |-> 0]

\* What r.json() yields: shape "none" is data = None (the body did not
\* parse), "list" a JSON array, "dict" a JSON object with these two keys.
DataNone == [shape |-> "none", created |-> JMissing, error |-> JMissing]
DataList == [shape |-> "list", created |-> JMissing, error |-> JMissing]
DataDict(created, error) == [shape |-> "dict", created |-> created, error |-> error]

Str_boom == <<"b", "o", "o", "m">>
Str_abc == <<"a", "b", "c">>
Str_timeout == <<"t", "i", "m", "e", "o", "u", "t">>

Outcome(status, data) == [raised |-> FALSE, status |-> status, data |-> data]

\* what client.post does: raise (timeout, refused connection), or answer
Outcomes ==
    { [raised |-> TRUE, status |-> 0, data |-> DataNone],
      Outcome(200, DataDict(JInt(1), JMissing)),
      Outcome(200, DataDict(JStr(Str_abc), JMissing)),
      Outcome(200, DataNone),
      Outcome(500, DataDict(JInt(2), JMissing)),
      Outcome(500, DataDict(JMissing, JStr(Str_boom))),
      Outcome(500, DataList) }

Pending ==
    [settled |-> FALSE, workerId |-> <<>>, label |-> <<>>, url |-> <<>>, ok |-> FALSE,
     status |-> 0, result |-> DataNone, error |-> JNull]

\* a call that looks its worker up in the registry when it settles
_call_worker_execute_Live(worker, o) ==
    LET w == IF Has(workers, worker.id) THEN Get(workers, worker.id) ELSE worker
        ok == ~o.raised /\ 200 <= o.status /\ o.status < 300
    IN  [settled |-> TRUE, workerId |-> w.id, label |-> w.label, url |-> w.url,
         ok |-> ok, status |-> o.status, result |-> o.data,
         error |-> IF ok THEN JNull ELSE JStr(Str_timeout)]

\* the dict _call_worker_execute returns
_call_worker_execute(worker, o) ==
    IF o.raised
    THEN [settled |-> TRUE, workerId |-> worker.id, label |-> worker.label,
          url |-> worker.url, ok |-> FALSE, status |-> 0, result |-> DataNone,
          error |-> JStr(Str_timeout)]
    ELSE LET ok == 200 <= o.status /\ o.status < 300
             err == IF ok THEN JNull
                    ELSE IF o.data.shape = "dict" THEN DictGet(o.data.error)
                    ELSE JStr(Str_HTTP \o IntToStr(o.status))
         IN  [settled |-> TRUE, workerId |-> worker.id, label |-> worker.label,
              url |-> worker.url, ok |-> ok, status |-> o.status, result |-> o.data,
              error |-> err]

\* ------------------------------------------------------ startup (env)
\* WORKERS: unset, a comma-separated list (its parts), or a JSON array of
\* objects (id, label, name and url, each a string or absent).
EnvUnset == [kind |-> "unset", parts |-> <<>>, items |-> <<>>]
EnvCsv(parts) == [kind |-> "csv", parts |-> parts, items |-> <<>>]
EnvJson(items) == [kind |-> "json", parts |-> <<>>, items |-> items]

EnvInputs ==
    { EnvUnset,
      EnvCsv(<<<<" ">>, Str_ftp \o <<"x", "/">>>>),
      EnvJson(<<[id |-> NoStr, label |-> NoStr, name |-> NoStr, url |-> NoStr],
                [id |-> SomeStr(<<"w", " ">>), label |-> NoStr, name |-> NoStr,
                 url |-> SomeStr(Str_https \o <<"b", "/">>)]>>) }

Str_workerdash == Str_worker \o <<"-">>

RECURSIVE SelectNonEmpty(_)
SelectNonEmpty(urls) ==
    IF urls = <<>> THEN <<>>
    ELSE IF Head(urls) # <<>> THEN <<Head(urls)>> \o SelectNonEmpty(Tail(urls))
         ELSE SelectNonEmpty(Tail(urls))

\* the (id, label, url) triple of JSON item i, or <<>> when its url is empty
EnvJsonTriple(x, i) ==
    LET wid == strip(IF OrEmpty(x.id) # <<>> THEN x.id.s ELSE Str_env \o IntToStr(i))
        label == strip(IF OrEmpty(x.label) # <<>> THEN x.label.s
                       ELSE IF OrEmpty(x.name) # <<>> THEN x.name.s ELSE wid)
        url == _normalize_url(OrEmpty(x.url))
    IN  IF url # <<>> THEN <<[id |-> wid, label |-> label, url |-> url]>> ELSE <<>>

RECURSIVE EnvJsonTriples(_, _)
EnvJsonTriples(items, i) ==
    IF i > Len(items) THEN <<>>
    ELSE EnvJsonTriple(items[i], i) \o EnvJsonTriples(items, i + 1)

_parse_workers_from_env(env) ==
    CASE env.kind = "unset" -> <<>>
      [] env.kind = "json" -> EnvJsonTriples(env.items, 1)
      [] env.kind = "csv" ->
           LET urls == SelectNonEmpty([i \in 1..Len(env.parts) |-> _normalize_url(env.parts[i])])
           IN  [i \in 1..Len(urls) |->
                   [id |-> Str_env \o IntToStr(i), label |-> Str_workerdash \o IntToStr(i),
                    url |-> urls[i]]]

RECURSIVE LoadTriples(_, _, _)
LoadTriples(ws, triples, now) ==
    IF triples = <<>> THEN ws
    ELSE LET t == Head(triples)
         IN  LoadTriples(Put(ws, t.id, Worker(t.id, t.label, t.url, now, now, Str_envsrc)),
                         Tail(triples), now)

_load_workers_env_once(env, now) == LoadTriples(<<>>, _parse_workers_from_env(env), now)

\* ------------------------------------------------------------ dispatch
Str_execute == <<"/", "e", "x", "e", "c", "u", "t", "e">>

\* lines 237-239: the POSTs of a request, one per assignment (the task's
\* name is passed through unread and is left out)
Calls(task_id, assignments) ==
    [i \in 1..Len(assignments) |->
        [url |-> assignments[i].w.url \o Str_execute,
         payload |-> [taskId |-> task_id, count |-> assignments[i].c]]]

\* The locals of one api_create_task request suspended at line 241.
Request(count, task_id, ws, assignments, per_worker) ==
    [count |-> count, task_id |-> task_id, ws |-> ws, assignments |-> assignments,
     calls |-> Calls(task_id, assignments), per_worker |-> per_worker]

\* the zero-count assignments kept
DropZero_KeepAll(pairs) == pairs

RECURSIVE DropZero(_)
DropZero(pairs) ==
    IF pairs = <<>> THEN <<>>
    ELSE IF Head(pairs).c > 0 THEN <<Head(pairs)>> \o DropZero(Tail(pairs))
         ELSE DropZero(Tail(pairs))

\* line 230
Assignments(count, ws) == DropZero(_distribute_evenly(count, ws))

\* task_seq advanced before the registry is found empty
CreateTaskBegin_SeqBeforeCheck(count) ==
    LET ws == _get_workers_list(workers)
        task_id == Str_task \o IntToStr(task_seq + 1)
        assignments == Assignments(count, ws)
    IN  /\ task_seq < MaxTaskSeq
        /\ task_seq' = task_seq + 1
        /\ IF ws = <<>>
           THEN /\ resp' = Response("create_task", 400, NoWorker, NoReport)
                /\ UNCHANGED inflight
           ELSE /\ inflight' = inflight \cup
                       {Request(count, task_id, ws, assignments,
                                [i \in 1..Len(assignments) |-> Pending])}
                /\ UNCHANGED resp
        /\ UNCHANGED <<workers, clock, dist_total, dist_ws, dist_out, threads>>

\* a request that takes its id without advancing task_seq
api_create_task_begin_NoIncrement(count, cap) ==
    LET ws == _get_workers_list(workers)
        task_id == Str_task \o IntToStr(task_seq + 1)
        assignments == Assignments(count, ws)
    IN  /\ IF ws = <<>>
           THEN /\ resp' = Response("create_task", 400, NoWorker, NoReport)
                /\ UNCHANGED <<task_seq, inflight>>
           ELSE /\ task_seq < cap
                /\ task_seq' = task_seq
                /\ inflight' = inflight \cup
                       {Request(count, task_id, ws, assignments,
                                [i \in 1..Len(assignments) |-> Pending])}
                /\ UNCHANGED resp
        /\ UNCHANGED <<workers, clock, dist_total, dist_ws, dist_out, threads>>

\* lines 217-241: up to the await of asyncio.gather; no task is accepted
\* once task_seq has reached cap
api_create_task_begin(count, cap) ==
    LET ws == _get_workers_list(workers)
        task_id == Str_task \o IntToStr(task_seq + 1)
        assignments == Assignments(count, ws)
    IN  /\ IF ws = <<>>
           THEN /\ resp' = Response("create_task", 400, NoWorker, NoReport)
                /\ UNCHANGED <<task_seq, inflight>>
           ELSE /\ task_seq < cap
                /\ task_seq' = task_seq + 1
                /\ inflight' = inflight \cup
                       {Request(count, task_id, ws, assignments,
                                [i \in 1..Len(assignments) |-> Pending])}
                /\ UNCHANGED resp
        /\ UNCHANGED <<workers, clock, dist_total, dist_ws, dist_out, threads>>

\* lines 217-241, as the main specification takes them
CreateTaskBegin(count) == api_create_task_begin(count, MaxTaskSeq)

\* one call of a gather settles: client.post answered or raised
CallSettle(r, i, o) ==
    /\ r \in inflight
    /\ i \in 1..Len(r.per_worker)
    /\ ~r.per_worker[i].settled
    /\ inflight' = (inflight \ {r}) \cup
           {[r EXCEPT !.per_worker[i] = _call_worker_execute(r.assignments[i].w, o)]}
    /\ UNCHANGED <<workers, task_seq, clock, resp, dist_total, dist_ws, dist_out, threads>>

\* a join that returns with the first call to settle
GatherDone_FirstSettled(per_worker) == \E i \in 1..Len(per_worker) : per_worker[i].settled

\* asyncio.gather returns once every call has settled
GatherDone(per_worker) == \A i \in 1..Len(per_worker) : per_worker[i].settled

\* a refresh that writes registered_at where last_seen_at belongs
Touch_StampsRegisteredAt(ws, wid, now) ==
    IF Has(ws, wid)
    THEN LET w == Get(ws, wid)
         IN  Put(ws, wid, Worker(w.id, w.label, w.url, w.registered_at, w.registered_at,
                                 w.source))
    ELSE ws

\* lines 246-255, for one result
Touch(ws, wid, now) ==
    IF Has(ws, wid)
    THEN LET w == Get(ws, wid)
         IN  Put(ws, wid, Worker(w.id, w.label, w.url, w.registered_at, now, w.source))
    ELSE ws

\* a refresh that skips the workers whose call failed
RECURSIVE TouchAll_OnlyOk(_, _, _)
TouchAll_OnlyOk(ws, per_worker, now) ==
    IF per_worker = <<>> THEN ws
    ELSE TouchAll_OnlyOk(IF Head(per_worker).ok
                         THEN Touch(ws, Head(per_worker).workerId, now) ELSE ws,
                         Tail(per_worker), now)

\* lines 244-255
RECURSIVE TouchAll(_, _, _)
TouchAll(ws, per_worker, now) ==
    IF per_worker = <<>> THEN ws
    ELSE TouchAll(Touch(ws, Head(per_worker).workerId, now), Tail(per_worker), now)

\* line 258
RECURSIVE CountOk(_)
CountOk(per_worker) ==
    IF per_worker = <<>> THEN 0
    ELSE (IF Head(per_worker).ok THEN 1 ELSE 0) + CountOk(Tail(per_worker))

\* lines 262-263, for one result: what it adds, or raised
CreatedOf(x) ==
    IF x.result.shape = "dict" THEN IntOrZero(DictGet(x.result.created))
    ELSE [raised |-> FALSE, value |-> 0]

\* lines 260-263
RECURSIVE CreatedTotal(_)
CreatedTotal(per_worker) ==
    IF per_worker = <<>> THEN [raised |-> FALSE, value |-> 0]
    ELSE LET h == CreatedOf(Head(per_worker))
             t == CreatedTotal(Tail(per_worker))
         IN  [raised |-> h.raised \/ t.raised, value |-> h.value + t.value]

\* line 277
AssignedCount(assignments, wid) ==
    IF \E i \in 1..Len(assignments) : assignments[i].w.id = wid
    THEN assignments[CHOOSE i \in 1..Len(assignments) :
                        /\ assignments[i].w.id = wid
                        /\ \A j \in 1..(i - 1) : assignments[j].w.id # wid].c
    ELSE 0

\* lines 265-287
Report(r) ==
    [taskId |-> r.task_id,
     totalCount |-> r.count,
     availableServers |-> Len(r.ws),
     perServerAssigned |->
        [i \in 1..Len(r.assignments) |->
            [workerId |-> r.assignments[i].w.id, label |-> r.assignments[i].w.label,
             assignedCount |-> r.assignments[i].c]],
     perWorker |->
        [i \in 1..Len(r.per_worker) |->
            [res |-> r.per_worker[i],
             assignedCount |-> AssignedCount(r.assignments, r.per_worker[i].workerId)]],
     successServers |-> CountOk(r.per_worker),
     failedServers |-> Len(r.per_worker) - CountOk(r.per_worker),
     createdTotal |-> CreatedTotal(r.per_worker).value]

\* lines 241-287: from the return of asyncio.gather to the response
CreateTaskFinish(r) ==
    /\ r \in inflight
    /\ GatherDone(r.per_worker)
    /\ workers' = TouchAll(workers, r.per_worker, clock)
    /\ inflight' = inflight \ {r}
    /\ resp' = IF CreatedTotal(r.per_worker).raised
               THEN Response("create_task", 500, NoWorker, NoReport)
               ELSE Response("create_task", 200, NoWorker, Report(r))
    /\ UNCHANGED <<task_seq, clock, dist_total, dist_ws, dist_out, threads>>

\* ------------------------------------------------------- specification
Counts == 1..MaxCount

Init ==
    /\ clock = 0
    /\ \E env \in EnvInputs : workers = _load_workers_env_once(env, 0)
    /\ task_seq = 0
    /\ inflight = {}
    /\ resp = Response("none", 0, NoWorker, NoReport)
    /\ dist_total = 0
    /\ dist_ws = <<>>
    /\ dist_out = <<>>
    /\ threads = {}

Next ==
    \/ \E body \in RegisterWorkerIn : api_register_worker(body)
    \/ Tick
    \/ \E count \in Counts : CreateTaskBegin(count)
    \/ \E r \in inflight, o \in Outcomes : \E i \in 1..Len(r.per_worker) : CallSettle(r, i, o)
    \/ \E r \in inflight : CreateTaskFinish(r)

Spec == Init /\ [][Next]_vars

\* ------------------------------------------------------ planner harness
\* _distribute_evenly applied to every total in 0..MaxTotal and every
\* ordered list of distinct workers drawn from DistPool.
DistPool ==
    { Worker(<<"p">>, Str_worker, Str_http \o <<"p">>, 0, 0, Str_envsrc),
      Worker(<<"q">>, Str_worker, Str_http \o <<"q">>, 0, 1, Str_register),
      Worker(<<"r">>, Str_worker, Str_http \o <<"r">>, 1, 1, Str_register) }

DistLists ==
    { l \in UNION {[1..n -> DistPool] : n \in 1..Cardinality(DistPool)} :
        \A i, j \in DOMAIN l : i # j => l[i] # l[j] }

InitDist ==
    /\ clock = 0
    /\ workers = <<>>
    /\ task_seq = 0
    /\ inflight = {}
    /\ resp = Response("none", 0, NoWorker, NoReport)
    /\ dist_total \in 0..MaxTotal
    /\ dist_ws \in DistLists
    /\ dist_out = <<>>
    /\ threads = {}

Distribute ==
    /\ dist_out = <<>>
    /\ dist_out' = _distribute_evenly(dist_total, dist_ws)
    /\ UNCHANGED <<workers, task_seq, clock, inflight, resp, dist_total, dist_ws, threads>>

NextDist == Distribute

SpecDist == InitDist /\ [][NextDist]_vars

\* --------------------------------------------------- overlapping tasks
\* Two api_create_task requests may be suspended at the gather at once,
\* while workers are registered and re-registered.  Every call settles
\* (each is bounded by its timeout), and the event loop resumes a request
\* whose gather is done.
TaskBodies ==
    { RegisterBody(Str_url_a, <<>>, SomeStr(Str_id_w)),
      RegisterBody(Str_url_b, Str_label_m, SomeStr(Str_id_w)) }

TaskOutcomes ==
    { [raised |-> TRUE, status |-> 0, data |-> DataNone],
      Outcome(200, DataDict(JInt(1), JMissing)),
      Outcome(200, DataDict(JStr(Str_abc), JMissing)) }

TaskCounts == 1..MaxTaskCount

SettleSome ==
    \E r \in inflight, o \in TaskOutcomes : \E i \in 1..Len(r.per_worker) : CallSettle(r, i, o)

FinishSome == \E r \in inflight : CreateTaskFinish(r)

NextTasks ==
    \/ \E body \in TaskBodies : api_register_worker(body)
    \/ Tick
    \/ \E count \in TaskCounts : api_create_task_begin(count, MaxTasks)
    \/ SettleSome
    \/ FinishSome

SpecTasks == Init /\ [][NextTasks]_vars /\ WF_vars(SettleSome) /\ WF_vars(FinishSome)

\* ------------------------------------------------- interleaved writes
\* api_register_worker is a plain def: the framework runs each call in a
\* thread of its pool, while the refresh loop of api_create_task runs on the
\* event loop's thread.  No lock guards the registry, and the interpreter
\* may switch threads between the line that reads an entry and the line
\* that stores one, so each of the two is a step of its own here.

\* A handler stopped between its read and its write: the locals it holds.
\* existing is what it read of the registry: <<>>, or the one entry found.
Thread(kind, task_id, k, wid, label, url, now, existing) ==
    [kind |-> kind, task_id |-> task_id, k |-> k, wid |-> wid, label |-> label,
     url |-> url, now |-> now, existing |-> existing]

\* workers.get(wid), as a registry of at most that one entry
Existing(ws, wid) == IF Has(ws, wid) THEN <<Get(ws, wid)>> ELSE <<>>

RegisterThreads == {t \in threads : t.kind = "register"}

\* lines 154-163 of one call: validation, the id, the label, the clock
\* reading and workers.get(wid)
RegisterRead(body) ==
    LET url == _normalize_url(body.url)
        wid == RegisterId(body, clock)
    IN  /\ Cardinality(RegisterThreads) < MaxThreads
        /\ IF RegisterRejects(url)
           THEN /\ resp' = Response("register", 400, NoWorker, NoReport)
                /\ UNCHANGED threads
           ELSE /\ Has(workers, wid) \/ Len(workers) < MaxWorkers
                /\ threads' = threads \cup
                       {Thread("register", <<>>, 0, wid, RegisterLabel(body), url, clock,
                               Existing(workers, wid))}
                /\ UNCHANGED resp
        /\ UNCHANGED <<workers, task_seq, clock, inflight, dist_total, dist_ws, dist_out>>

\* lines 165-173 of that call: the store, and the response
RegisterWrite(t) ==
    LET entry == RegisterEntry(t.existing, t.wid, t.label, t.url, t.now)
    IN  /\ t \in RegisterThreads
        /\ workers' = Put(workers, t.wid, entry)
        /\ resp' = Response("register", 200, entry, NoReport)
        /\ threads' = threads \ {t}
        /\ UNCHANGED <<task_seq, clock, inflight, dist_total, dist_ws, dist_out>>

\* lines 241-243: the gather has returned; now = _now()
FinishStart(r) ==
    /\ r \in inflight
    /\ GatherDone(r.per_worker)
    /\ \A t \in threads : t.task_id # r.task_id
    /\ threads' = threads \cup {Thread("touch", r.task_id, 1, <<>>, <<>>, <<>>, clock, <<>>)}
    /\ UNCHANGED <<workers, task_seq, clock, inflight, resp, dist_total, dist_ws, dist_out>>

\* lines 245-247 for result k: wid in workers, w = workers[wid]
TouchRead(t, r) ==
    /\ t \in threads /\ t.kind = "touch" /\ t.wid = <<>>
    /\ r \in inflight /\ r.task_id = t.task_id
    /\ t.k <= Len(r.per_worker)
    /\ LET wid == r.per_worker[t.k].workerId
       IN  threads' = (threads \ {t}) \cup
               {IF Has(workers, wid)
                THEN [t EXCEPT !.wid = wid, !.existing = Existing(workers, wid)]
                ELSE [t EXCEPT !.k = t.k + 1]}
    /\ UNCHANGED <<workers, task_seq, clock, inflight, resp, dist_total, dist_ws, dist_out>>

\* lines 248-255 for result k: the store of the copy with last_seen_at = now
TouchWrite(t) ==
    /\ t \in threads /\ t.kind = "touch" /\ t.wid # <<>>
    /\ workers' = Put(workers, t.wid, Get(Touch(t.existing, t.wid, t.now), t.wid))
    /\ threads' = (threads \ {t}) \cup
           {[t EXCEPT !.k = t.k + 1, !.wid = <<>>, !.existing = <<>>]}
    /\ UNCHANGED <<task_seq, clock, inflight, resp, dist_total, dist_ws, dist_out>>

\* lines 257-287: the loop is over; the totals and the response
FinishReport(t, r) ==
    /\ t \in threads /\ t.kind = "touch" /\ t.wid = <<>>
    /\ r \in inflight /\ r.task_id = t.task_id
    /\ t.k > Len(r.per_worker)
    /\ threads' = threads \ {t}
    /\ inflight' = inflight \ {r}
    /\ resp' = IF CreatedTotal(r.per_worker).raised
               THEN Response("create_task", 500, NoWorker, NoReport)
               ELSE Response("create_task", 200, NoWorker, Report(r))
    /\ UNCHANGED <<workers, task_seq, clock, dist_total, dist_ws, dist_out>>

\* the calls of this specification all answer 200 {"created": 1}: what a
\* call answers has no part in how the registry is written
RaceOutcomes == { Outcome(200, DataDict(JInt(1), JMissing)) }

NextRace ==
    \/ \E body \in TaskBodies : RegisterRead(body)
    \/ \E t \in threads : RegisterWrite(t)
    \/ Tick
    \/ \E count \in TaskCounts : CreateTaskBegin(count)
    \/ \E r \in inflight, o \in RaceOutcomes : \E i \in 1..Len(r.per_worker) : CallSettle(r, i, o)
    \/ \E r \in inflight : FinishStart(r)
    \/ \E t \in threads, r \in inflight : TouchRead(t, r)
    \/ \E t \in threads : TouchWrite(t)
    \/ \E t \in threads, r \in inflight : FinishReport(t, r)

SpecRace == Init /\ [][NextRace]_vars

\* ---------------------------------------------------------------- claims

\* C1: for every total >= 0 and every worker list of size N >= 1,
\* _distribute_evenly returns N pairs, in input order, whose counts sum to
\* total; every count is base or base+1 with base = total div N; exactly
\* total mod N workers get base+1, and they are the first ones.
C1_DistributeEvenly ==
    dist_out # <<>> =>
        LET n == Len(dist_ws)
            base == dist_total \div n
        IN  /\ Len(dist_out) = n
            /\ \A i \in 1..n : dist_out[i].w = dist_ws[i]
            /\ SumCounts(dist_out) = dist_total
            /\ \A i \in 1..n : dist_out[i].c \in {base, base + 1}
            /\ Cardinality({i \in 1..n : dist_out[i].c = base + 1}) = dist_total % n
            /\ \A i \in 1..n : dist_out[i].c = base + 1 <=> i <= dist_total % n

C1_Witness ==
    /\ dist_out # <<>>
    /\ Len(dist_ws) = 3
    /\ dist_total = 7
    /\ dist_out[1].c = 3 /\ dist_out[2].c = 2 /\ dist_out[3].c = 2

\* a response of api_create_task that carries a TaskReport
IsReport(x) == x.op = "create_task" /\ x.status = 200

\* the ids of the workers a request called
CalledIds(r) == {r.assignments[i].w.id : i \in 1..Len(r.assignments)}

\* C2: with a non-empty registry api_create_task answers with a TaskReport
\* whatever the per-worker outcomes are (never an error raised to the
\* caller), and the report has one DispatchResult per dispatched assignment.
C2_DispatchAlwaysReports ==
    [][\A r \in inflight :
          CreateTaskFinish(r) =>
              /\ IsReport(resp')
              /\ Len(resp'.report.perWorker) = Len(r.assignments)]_vars

\* C3: the report, and the lastSeenAt refresh before it, are produced only
\* once every call launched for the task has settled: a request leaves the
\* gather with all results settled, the registry changes only by a
\* registration or by such a request, every result in a report is a settled
\* one, there is one per launched call, and no call of the reported task is
\* still outstanding.
C3_JoinWaitsForAll ==
    /\ [](IsReport(resp) =>
            /\ \A i \in 1..Len(resp.report.perWorker) : resp.report.perWorker[i].res.settled
            /\ Len(resp.report.perWorker) = Len(resp.report.perServerAssigned)
            /\ \A r \in inflight : r.task_id # resp.report.taskId)
    /\ [](\A r \in inflight : Len(r.per_worker) = Len(r.assignments))
    /\ [][/\ (inflight' # inflight /\ Cardinality(inflight') < Cardinality(inflight)) =>
                \A r \in inflight \ inflight' :
                    \A i \in 1..Len(r.per_worker) : r.per_worker[i].settled
          /\ (workers' # workers) =>
                \/ resp'.op = "register"
                \/ Cardinality(inflight') < Cardinality(inflight)]_vars

\* a report over two calls of which the first failed and the second succeeded
C3_Witness ==
    /\ IsReport(resp)
    /\ Len(resp.report.perWorker) = 2
    /\ ~resp.report.perWorker[1].res.ok
    /\ resp.report.perWorker[2].res.ok

\* C4: registering an id that is already in the registry keeps its
\* registered_at (which no step ever changes for a registered id), and sets
\* url and label to the normalized new values, last_seen_at to the time of
\* the call and source to register.
C4_ReRegisterKeepsRegisteredAt ==
    [][/\ \A id \in Ids(workers) :
              /\ Has(workers', id)
              /\ Get(workers', id).registered_at = Get(workers, id).registered_at
       /\ \A body \in RegisterWorkerIn :
              (/\ api_register_worker(body)
               /\ resp'.status = 200
               /\ Has(workers, RegisterId(body, clock))) =>
                  LET e == Get(workers', RegisterId(body, clock))
                  IN  /\ e.registered_at = Get(workers, RegisterId(body, clock)).registered_at
                      /\ e.url = strip_slashes(strip(body.url))
                      /\ e.label = (IF strip(body.label) = <<>> THEN Str_worker
                                    ELSE strip(body.label))
                      /\ e.last_seen_at = clock
                      /\ e.source = Str_register
                      /\ resp'.worker = e]_vars

\* a re-registration answered: the entry is older than the call, and it
\* replaced the entry of a worker loaded from the environment or touched
C4_Witness ==
    /\ resp.op = "register" /\ resp.status = 200
    /\ resp.worker.registered_at = 0
    /\ resp.worker.last_seen_at = 2
    /\ resp.worker.url = Str_http \o <<"a">>
    /\ Has(workers, resp.worker.id)
    /\ Get(workers, resp.worker.id) = resp.worker

\* C5: a registration whose url, trimmed of whitespace and trailing slashes,
\* is empty or begins with neither http:// nor https:// is answered 400 and
\* leaves the registry exactly as it was.
C5_Malformed(url) ==
    LET u == strip_slashes(strip(url))
    IN  u = <<>> \/ ~(startswith(u, Str_http) \/ startswith(u, Str_https))

C5_RejectedRegistrationChangesNothing ==
    [][\A body \in RegisterWorkerIn :
          (api_register_worker(body) /\ C5_Malformed(body.url)) =>
              /\ resp'.op = "register"
              /\ resp'.status = 400
              /\ workers' = workers]_vars

\* a rejected registration, with the id it may have carried in the registry
C5_Witness ==
    /\ resp.op = "register" /\ resp.status = 400
    /\ Has(workers, strip(Str_id_w))

\* C6: a task requested while the registry is empty is answered 400 with no
\* side effect: no call is launched, task_seq is not advanced, the registry
\* is unchanged; and a task accepted later still gets the next id.
C6_NoWorkersNoSideEffect ==
    /\ [][\A count \in Counts :
             (CreateTaskBegin(count) /\ workers = <<>>) =>
                 /\ resp'.op = "create_task"
                 /\ resp'.status = 400
                 /\ task_seq' = task_seq
                 /\ inflight' = inflight
                 /\ workers' = workers]_vars
    /\ [](\A r \in inflight :
             \E n \in 1..task_seq : r.task_id = Str_task \o IntToStr(n))
    /\ [](Cardinality(inflight) <= task_seq)

C6_Witness ==
    /\ resp.op = "create_task" /\ resp.status = 400
    /\ workers = <<>>
    /\ task_seq = 0
    /\ inflight = {}

\* the created field of a result when it is a JSON object carrying a number
C7_NumericCreated(x) ==
    IF x.result.shape = "dict" /\ x.result.created.t = "int" THEN x.result.created.n ELSE 0

RECURSIVE C7_SumOk(_)
C7_SumOk(perWorker) ==
    IF perWorker = <<>> THEN 0
    ELSE (IF Head(perWorker).res.ok THEN C7_NumericCreated(Head(perWorker).res) ELSE 0)
         + C7_SumOk(Tail(perWorker))

\* C7: in every TaskReport createdTotal is the sum of created over exactly
\* the results with ok = true; a result with ok = false adds 0 even when its
\* payload is a JSON object with a numeric created.
C7_CreatedTotalCountsOnlyOk ==
    IsReport(resp) => resp.report.createdTotal = C7_SumOk(resp.report.perWorker)

\* a 2xx result whose payload has no numeric created
C8_NoNumericCreated(x) ==
    x.settled /\ x.ok /\ ~(x.result.shape = "dict" /\ x.result.created.t = "int")

RECURSIVE C8_SumNumeric(_)
C8_SumNumeric(per_worker) ==
    IF per_worker = <<>> THEN 0
    ELSE C7_NumericCreated(Head(per_worker)) + C8_SumNumeric(Tail(per_worker))

\* C8: a worker whose 2xx response has a missing or non-numeric created, or
\* a payload that is no JSON object, adds 0 to createdTotal, and the
\* dispatch still answers with a report that counts it in successServers.
C8_MalformedCreatedAddsZero ==
    [][\A r \in inflight :
          (/\ CreateTaskFinish(r)
           /\ \E i \in 1..Len(r.per_worker) : C8_NoNumericCreated(r.per_worker[i])) =>
              /\ IsReport(resp')
              /\ resp'.report.createdTotal = C8_SumNumeric(r.per_worker)
              /\ resp'.report.successServers =
                     Cardinality({i \in 1..Len(r.per_worker) : r.per_worker[i].ok})]_vars

\* C9: a dispatch over a snapshot of N workers in which exactly one
\* worker's call never completed and every other answer was 2xx reports
\* failedServers = 1 and successServers = N - 1, and sets that worker's
\* last_seen_at to the settlement time.  Stated here for the counts that
\* reach every worker of the snapshot (count >= N); a smaller count calls
\* only the first count workers, so the claim fails there as well.
C9_OneUnreachable ==
    [][\A r \in inflight :
          (/\ CreateTaskFinish(r)
           /\ r.count >= Len(r.ws)
           /\ Cardinality({i \in 1..Len(r.per_worker) : r.per_worker[i].status = 0}) = 1
           /\ \A i \in 1..Len(r.per_worker) :
                  r.per_worker[i].status # 0 => r.per_worker[i].ok) =>
              /\ IsReport(resp')
              /\ resp'.report.failedServers = 1
              /\ resp'.report.successServers = Len(r.ws) - 1
              /\ \A i \in 1..Len(r.per_worker) :
                     r.per_worker[i].status = 0 =>
                         Get(workers', r.per_worker[i].workerId).last_seen_at = clock]_vars

\* C10: when a dispatch settles, every worker it called that is in the
\* registry gets last_seen_at = the settlement time, whatever its outcome
\* was; every other field of every entry, the entries of the workers not
\* called, and the set and order of the entries stay as they are.
C10_RefreshFrame ==
    [][\A r \in inflight :
          CreateTaskFinish(r) =>
              /\ Len(workers') = Len(workers)
              /\ \A k \in 1..Len(workers) :
                     /\ workers'[k].id = workers[k].id
                     /\ workers'[k].label = workers[k].label
                     /\ workers'[k].url = workers[k].url
                     /\ workers'[k].registered_at = workers[k].registered_at
                     /\ workers'[k].source = workers[k].source
                     /\ workers'[k].last_seen_at =
                            IF workers[k].id \in CalledIds(r) THEN clock
                            ELSE workers[k].last_seen_at]_vars

\* a settled dispatch of one call, which failed: the called worker is
\* refreshed, the other is not, and the called worker's entry had been
\* re-registered with another url while the call was in flight
C10_Witness ==
    /\ resp.op = "create_task" /\ resp.status = 200
    /\ Len(resp.report.perWorker) = 1
    /\ resp.report.failedServers = 1
    /\ Len(workers) = 2
    /\ \E k, j \in 1..2 :
           /\ workers[k].id = resp.report.perWorker[1].res.workerId
           /\ workers[k].last_seen_at = clock
           /\ workers[k].registered_at < clock
           /\ workers[k].url # resp.report.perWorker[1].res.url
           /\ workers[j].last_seen_at < clock

\* C11: the result a settling call records is classified: error is non-null
\* exactly when ok is false; ok is true exactly when the worker answered 2xx;
\* status is 0 exactly when the call never completed; and the error of a
\* non-2xx answer is the payload's error field when the payload is a JSON
\* object that has one, and "HTTP <code>" otherwise.
C11_ResultClassified ==
    [][\A r \in inflight, o \in Outcomes :
          \A i \in 1..Len(r.per_worker) :
              CallSettle(r, i, o) =>
                  \A r2 \in {q \in inflight' : q.task_id = r.task_id} :
                      LET x == r2.per_worker[i]
                      IN  /\ x.settled
                          /\ (x.error # JNull) <=> ~x.ok
                          /\ x.ok <=> (~o.raised /\ 200 <= o.status /\ o.status < 300)
                          /\ (x.status = 0) <=> o.raised
                          /\ (~o.raised /\ ~x.ok) =>
                                x.error =
                                    IF o.data.shape = "dict" /\ o.data.error.t # "missing"
                                    THEN o.data.error
                                    ELSE JStr(Str_HTTP \o IntToStr(o.status))]_vars

\* C14: an accepted registration that carries no id is stored under a
\* generated id that no worker of the registry has: it adds an entry and
\* leaves every entry that was there as it was, also when another id-less
\* registration was made at the same clock reading.
C14_GeneratedIdUnique ==
    [][\A body \in RegisterWorkerIn :
          (/\ api_register_worker(body)
           /\ resp'.status = 200
           /\ strip(OrEmpty(body.id)) = <<>>) =>
              /\ resp'.worker.id \notin Ids(workers)
              /\ Len(workers') = Len(workers) + 1
              /\ \A k \in 1..Len(workers) : workers'[k] = workers[k]]_vars

\* the count the plan gives the i-th worker of a snapshot of n workers
C16_Planned(count, n, i) == count \div n + (IF i <= count % n THEN 1 ELSE 0)

C16_Min(a, b) == IF a <= b THEN a ELSE b

\* C16: in a dispatch of count > 0 over a snapshot of N workers, the workers
\* whose planned count is zero get no call, are in neither the plan nor the
\* results, and are not touched; exactly min(count, N) workers are called,
\* each once (a settled call is never made again) with its own planned
\* count in the payload, and the counts sent sum to count.
C16_ZeroCountDropped ==
    /\ [](\A r \in inflight :
             LET n == Len(r.ws)
                 m == C16_Min(r.count, n)
             IN  /\ r.count > 0
                 /\ Len(r.assignments) = m
                 /\ Len(r.calls) = m
                 /\ Len(r.per_worker) = m
                 /\ \A i \in 1..m :
                        /\ r.assignments[i].w = r.ws[i]
                        /\ r.assignments[i].c = C16_Planned(r.count, n, i)
                        /\ r.assignments[i].c > 0
                        /\ r.calls[i].url = r.ws[i].url \o Str_execute
                        /\ r.calls[i].payload.count = C16_Planned(r.count, n, i)
                        /\ r.per_worker[i].settled => r.per_worker[i].workerId = r.ws[i].id
                 /\ \A i \in (m + 1)..n :
                        /\ C16_Planned(r.count, n, i) = 0
                        /\ \A j \in 1..m : r.assignments[j].w.id # r.ws[i].id
                 /\ \A i, j \in 1..m : i # j => r.assignments[i].w.id # r.assignments[j].w.id
                 /\ SumCounts([i \in 1..m |-> [c |-> r.calls[i].payload.count]]) = r.count)
    /\ [][/\ \A r \in inflight, r2 \in inflight' :
                r2.task_id = r.task_id =>
                    /\ r2.calls = r.calls
                    /\ \A i \in 1..Len(r.per_worker) :
                           r.per_worker[i].settled => r2.per_worker[i] = r.per_worker[i]
          /\ \A r \in inflight :
                CreateTaskFinish(r) =>
                    /\ \A k \in 1..Len(workers) :
                           workers[k].id \notin CalledIds(r) => workers'[k] = workers[k]
                    /\ IsReport(resp') =>
                           /\ Len(resp'.report.perServerAssigned) = C16_Min(r.count, Len(r.ws))
                           /\ Len(resp'.report.perWorker) = C16_Min(r.count, Len(r.ws))
                           /\ \A i \in 1..Len(resp'.report.perWorker) :
                                  /\ resp'.report.perWorker[i].assignedCount > 0
                                  /\ resp'.report.perServerAssigned[i].assignedCount > 0]_vars

\* a report of a dispatch of count 1 over two workers: one call, and the
\* worker that got none was not touched
C16_Witness ==
    /\ IsReport(resp)
    /\ resp.report.totalCount = 1
    /\ resp.report.availableServers = 2
    /\ Len(resp.report.perWorker) = 1
    /\ Len(workers) = 2
    /\ \E k \in 1..2 :
           /\ workers[k].id # resp.report.perWorker[1].res.workerId
           /\ workers[k].last_seen_at < clock

\* C17: the plan of every dispatch lists the snapshot's workers in
\* non-decreasing registered_at order, with counts that never grow along the
\* plan and differ by at most one (the units of the remainder go to the
\* earliest registered); and no step (a registration of a new or a present
\* id, a refresh, or any step that writes nothing) changes the position a
\* registered worker has in the list _get_workers_list returns.
C17_PlanInRegistrationOrder ==
    /\ [](\A r \in inflight :
             /\ \A i, j \in 1..Len(r.ws) :
                    i < j => r.ws[i].registered_at <= r.ws[j].registered_at
             /\ \A i \in 1..Len(r.assignments) : r.assignments[i].w = r.ws[i]
             /\ \A i, j \in 1..Len(r.assignments) :
                    i < j => /\ r.assignments[i].c >= r.assignments[j].c
                             /\ r.assignments[i].c <= r.assignments[j].c + 1)
    /\ [][/\ Len(_get_workers_list(workers')) >= Len(_get_workers_list(workers))
          /\ \A k \in 1..Len(_get_workers_list(workers)) :
                 _get_workers_list(workers')[k].id = _get_workers_list(workers)[k].id
          /\ \A count \in Counts :
                 CreateTaskBegin(count) =>
                     \A r \in inflight' \ inflight : r.ws = _get_workers_list(workers)]_vars

\* a dispatch of 3 over two workers registered at different times, the
\* earlier of which was seen (re-registered or touched) after the later one:
\* it is still first and gets the unit of the remainder
C17_Witness ==
    \E r \in inflight :
        /\ r.count = 3
        /\ Len(r.ws) = 2
        /\ r.ws[1].registered_at < r.ws[2].registered_at
        /\ r.ws[1].last_seen_at > r.ws[2].last_seen_at
        /\ r.assignments[1].c = 2
        /\ r.assignments[2].c = 1

\* C18: every worker of the registry, loaded at startup or registered, has
\* a url that is non-empty, does not end with a slash, and begins with
\* http:// or https://.
C18_EndpointWellFormed ==
    \A k \in 1..Len(workers) :
        /\ workers[k].url # <<>>
        /\ ~endswith_slash(workers[k].url)
        /\ startswith(workers[k].url, Str_http) \/ startswith(workers[k].url, Str_https)

\* C20: with a clock that never goes back, every worker of the registry
\* has last_seen_at >= registered_at; no step removes a worker (the set of
\* registered ids only grows); and no step (the startup load is the initial
\* state; registrations and refreshes are the steps) lowers a worker's
\* last_seen_at.
C20_TimestampsOrdered ==
    /\ [](\A k \in 1..Len(workers) : workers[k].last_seen_at >= workers[k].registered_at)
    /\ [][/\ clock' >= clock
          /\ Ids(workers) \subseteq Ids(workers')
          /\ Len(workers') >= Len(workers)
          /\ \A id \in Ids(workers) :
                 Get(workers', id).last_seen_at >= Get(workers, id).last_seen_at]_vars

\* a worker loaded at startup and refreshed by a dispatch two ticks later,
\* beside a worker registered since
C20_Witness ==
    /\ Len(workers) = 2
    /\ workers[1].source = Str_envsrc
    /\ workers[1].registered_at = 0
    /\ workers[1].last_seen_at = 2
    /\ workers[2].source = Str_register
    /\ workers[2].last_seen_at < 2

\* the number a task id ends with
C13_IdNumber(task_id) == ParseDigits(SubSeq(task_id, Len(Str_task) + 1, Len(task_id)))

\* C13: task ids are strictly increasing in the order the requests pass the
\* non-empty-registry check: an accepted request gets an id whose number is
\* above that of every request in flight and of the latest report, task_seq
\* never goes down, two requests in flight never share an id, and every
\* call and the report of a request carry that request's id, also when
\* another request started while it was in flight.
C13_TaskIdsIncrease ==
    /\ [](\A r1, r2 \in inflight : r1.task_id = r2.task_id => r1 = r2)
    /\ [](\A r \in inflight :
             /\ C13_IdNumber(r.task_id) \in 1..task_seq
             /\ r.task_id = Str_task \o IntToStr(C13_IdNumber(r.task_id))
             /\ \A i \in 1..Len(r.calls) : r.calls[i].payload.taskId = r.task_id)
    /\ [](IsReport(resp) => C13_IdNumber(resp.report.taskId) \in 1..task_seq)
    /\ [][/\ task_seq' >= task_seq
          /\ \A r2 \in inflight' \ inflight :
                 (\A r \in inflight : r.task_id # r2.task_id) =>
                     /\ task_seq' = task_seq + 1
                     /\ \A r \in inflight : C13_IdNumber(r2.task_id) > C13_IdNumber(r.task_id)
                     /\ C13_IdNumber(r2.task_id) > task_seq
          /\ \A r \in inflight :
                 (CreateTaskFinish(r) /\ IsReport(resp')) => resp'.report.taskId = r.task_id]_vars

\* the second task has reported under its own id while the first, started
\* before it, is still waiting for a call
C13_Witness ==
    /\ IsReport(resp)
    /\ resp.report.taskId = Str_task \o <<"2">>
    /\ \E r \in inflight :
           /\ r.task_id = Str_task \o <<"1">>
           /\ \E i \in 1..Len(r.per_worker) : ~r.per_worker[i].settled

\* C15: the worker list a request takes when it starts is the registry's
\* list of that moment, and it stays the request's own: while the request is
\* in flight no step (a registration, a re-registration, another request's
\* refresh) changes its workers, its plan or the calls it sent; every result
\* it records and the report it returns echo the id, label and url of the
\* snapshot, and availableServers is the size of the snapshot.
C15_SnapshotStable ==
    [][/\ \A r2 \in inflight' :
              (\A r \in inflight : r.task_id # r2.task_id) =>
                  r2.ws = _get_workers_list(workers)
       /\ \A r \in inflight, r2 \in inflight' :
              r2.task_id = r.task_id =>
                  /\ r2.count = r.count
                  /\ r2.ws = r.ws
                  /\ r2.assignments = r.assignments
                  /\ r2.calls = r.calls
                  /\ \A i \in 1..Len(r2.per_worker) :
                         r2.per_worker[i].settled =>
                             /\ r2.per_worker[i].workerId = r.ws[i].id
                             /\ r2.per_worker[i].label = r.ws[i].label
                             /\ r2.per_worker[i].url = r.ws[i].url
                             /\ r.calls[i].url = r.ws[i].url \o Str_execute
       /\ \A r \in inflight :
              (CreateTaskFinish(r) /\ IsReport(resp')) =>
                  /\ resp'.report.availableServers = Len(r.ws)
                  /\ Len(resp'.report.perServerAssigned) = Len(r.assignments)
                  /\ \A i \in 1..Len(r.assignments) :
                         /\ resp'.report.perServerAssigned[i].workerId = r.ws[i].id
                         /\ resp'.report.perServerAssigned[i].label = r.ws[i].label
                         /\ resp'.report.perServerAssigned[i].assignedCount = r.assignments[i].c
                         /\ resp'.report.perWorker[i].res.workerId = r.ws[i].id
                         /\ resp'.report.perWorker[i].res.label = r.ws[i].label
                         /\ resp'.report.perWorker[i].res.url = r.ws[i].url]_vars

\* a report that echoes the url and label its worker had when the task
\* started, after the worker was re-registered with other ones in flight
C15_Witness ==
    /\ IsReport(resp)
    /\ \E k \in 1..Len(workers) :
           /\ workers[k].id = resp.report.perWorker[1].res.workerId
           /\ workers[k].url # resp.report.perWorker[1].res.url
           /\ workers[k].label # resp.report.perWorker[1].res.label
           /\ workers[k].label # resp.report.perServerAssigned[1].label
           /\ workers[k].source = Str_register

\* C19: given that every call settles in the end, every request that passed
\* the non-empty-registry check returns its report in the end; and a call
\* that is still outstanding only keeps its own request at the join: no step
\* changes or withdraws a result already recorded, a settling call changes
\* nothing but its own result, and a request that finishes leaves every
\* other request in flight as it is.
C19_EveryDispatchReports ==
    /\ \A n \in 1..MaxTasks :
           (\E r \in inflight : r.task_id = Str_task \o IntToStr(n))
               ~> (IsReport(resp) /\ resp.report.taskId = Str_task \o IntToStr(n))
    /\ [][/\ \A r \in inflight, r2 \in inflight' :
                 r2.task_id = r.task_id =>
                     \A i \in 1..Len(r.per_worker) :
                         r.per_worker[i].settled => r2.per_worker[i] = r.per_worker[i]
          /\ \A r \in inflight, o \in TaskOutcomes :
                 \A i \in 1..Len(r.per_worker) :
                     CallSettle(r, i, o) =>
                         /\ inflight' \ {q \in inflight' : q.task_id = r.task_id} = inflight \ {r}
                         /\ \A r2 \in inflight' :
                                r2.task_id = r.task_id =>
                                    \A j \in 1..Len(r.per_worker) :
                                        j # i => r2.per_worker[j] = r.per_worker[j]
          /\ \A r \in inflight :
                 CreateTaskFinish(r) => inflight' = inflight \ {r}]_vars

\* C12: every write of the registry is atomic with respect to the others:
\* the entry a registration stores is the upsert of the registry as it is
\* when it stores (registered_at kept if the id is there by then), the
\* entry a refresh stores is the entry as it is when it stores with only
\* last_seen_at changed (so a url or label written by a registration that
\* completed in between is not overwritten by the values the refresh read
\* before), and the registered_at of a registered id never changes.
C12_WritesAtomic ==
    [][/\ \A t \in threads :
              RegisterWrite(t) =>
                  Get(workers', t.wid) = RegisterEntry(workers, t.wid, t.label, t.url, t.now)
       /\ \A t \in threads :
              TouchWrite(t) => workers' = Touch(workers, t.wid, t.now)
       /\ \A id \in Ids(workers) :
              /\ Has(workers', id)
              /\ Get(workers', id).registered_at = Get(workers, id).registered_at]_vars

====
